---------------------------- MODULE Spec2Model ----------------------------
(***************************************************************************)
(* A model of clean.py: the text repair functions, the line-drop            *)
(* classifier, the article-metadata remover and the page loop that          *)
(* accumulates cleaned segments, formula records and image files.           *)
(*                                                                          *)
(* Text is modelled at character level: a string is a sequence of           *)
(* characters and a character is a one-character TLA+ string.  The few      *)
(* non-ASCII characters the program cares about are named atoms (RC, DEG,   *)
(* CJK, BULLET, COPYRIGHT).  Regular expressions are translated by hand     *)
(* into the scan the regex engine performs (leftmost match, greedy runs).   *)
(***************************************************************************)
EXTENDS Integers, Sequences, FiniteSets, TLC

(***************************************************************************)
(* Characters and character classes                                         *)
(***************************************************************************)
NL == "\n"
CR == "\r"
TAB == "\t"
SP == " "
BSL == "\\"
\* U+FFFD, the replacement character the Celsius repair looks for.
RC == "U+FFFD"
\* U+00B0, the degree sign.
DEG == "U+00B0"
\* U+4E2D, a code point of the CJK Unified Ideographs block.
CJK == "U+4E2D"
\* U+2022, the bullet glyph.
BULLET == "U+2022"
\* U+00A9, the copyright sign.
COPYRIGHT == "U+00A9"

UpperSeq ==
  <<"A","B","C","D","E","F","G","H","I","J","K","L","M",
    "N","O","P","Q","R","S","T","U","V","W","X","Y","Z">>
LowerSeq ==
  <<"a","b","c","d","e","f","g","h","i","j","k","l","m",
    "n","o","p","q","r","s","t","u","v","w","x","y","z">>

Range(f) == {f[i] : i \in DOMAIN f}

UpperLetters == Range(UpperSeq)
LowerLetters == Range(LowerSeq)
Letters == UpperLetters \cup LowerLetters
Digits == {"0","1","2","3","4","5","6","7","8","9"}
\* \s of a str pattern, and what str.strip() removes.
Space == {SP, TAB, NL, CR}
\* \w of a str pattern: alphanumerics (ideographs included) and the underscore.
WordChars == Letters \cup Digits \cup {"_", CJK}
\* [a-zA-Z0-9]
AlNum == Letters \cup Digits

LowerChar(c) ==
  IF c \in UpperLetters
    THEN LowerSeq[CHOOSE i \in DOMAIN UpperSeq : UpperSeq[i] = c]
    ELSE c
UpperChar(c) ==
  IF c \in LowerLetters
    THEN UpperSeq[CHOOSE i \in DOMAIN LowerSeq : LowerSeq[i] = c]
    ELSE c

\* str.lower() and str.upper()
Lower(s) == [i \in DOMAIN s |-> LowerChar(s[i])]
Upper(s) == [i \in DOMAIN s |-> UpperChar(s[i])]

(***************************************************************************)
(* String primitives                                                        *)
(***************************************************************************)
\* s[i..] (1-based), the empty string when i is past the end.
From(s, i) == SubSeq(s, i, Len(s))

\* p occurs in s starting at position i.
OccursAt(s, i, p) ==
  /\ i >= 1
  /\ i + Len(p) - 1 <= Len(s)
  /\ \A k \in 1..Len(p) : s[i + k - 1] = p[k]

\* str.startswith
StartsWith(s, p) == OccursAt(s, 1, p)

\* The "in" operator of two strings.
Contains(s, p) == \E i \in 1..(Len(s) - Len(p) + 1) : OccursAt(s, i, p)

\* The position after the longest run of characters of class S that starts
\* at i (i itself when s[i] is not in S): what a greedy S* consumes.
RunEnd(s, i, S) ==
  IF i > Len(s) THEN i
  ELSE CHOOSE j \in i..(Len(s) + 1) :
         /\ \A k \in i..(j - 1) : s[k] \in S
         /\ (j = Len(s) + 1 \/ s[j] \notin S)

\* The same for the complement class, [^S]*.
RunEndNot(s, i, S) ==
  IF i > Len(s) THEN i
  ELSE CHOOSE j \in i..(Len(s) + 1) :
         /\ \A k \in i..(j - 1) : s[k] \notin S
         /\ (j = Len(s) + 1 \/ s[j] \in S)

\* str.rstrip(), str.lstrip(), str.strip()
RStrip(s) ==
  LET last == CHOOSE j \in 0..Len(s) :
                /\ \A k \in (j + 1)..Len(s) : s[k] \in Space
                /\ (j = 0 \/ s[j] \notin Space)
  IN SubSeq(s, 1, last)
LStrip(s) == From(s, RunEnd(s, 1, Space))
Strip(s) == RStrip(LStrip(s))

\* str.strip("\n")
StripNL(s) ==
  LET a == RunEnd(s, 1, {NL})
      t == From(s, a)
      last == CHOOSE j \in 0..Len(t) :
                /\ \A k \in (j + 1)..Len(t) : t[k] = NL
                /\ (j = 0 \/ t[j] # NL)
  IN SubSeq(t, 1, last)

\* The least of the given positions, 0 when there is none: where a
\* left-to-right scan finds its next match.
FirstOf(hits) ==
  IF hits = {} THEN 0 ELSE CHOOSE j \in hits : \A k \in hits : j <= k

\* str.replace(old, new): non-overlapping occurrences, left to right.
RECURSIVE ReplaceFrom(_, _, _, _)
ReplaceFrom(s, i, old, new) ==
  LET m == FirstOf({j \in i..Len(s) : OccursAt(s, j, old)})
  IN IF m = 0 THEN From(s, i)
     ELSE SubSeq(s, i, m - 1) \o new \o ReplaceFrom(s, m + Len(old), old, new)
Replace(s, old, new) == ReplaceFrom(s, 1, old, new)

\* str.split("\n"): always at least one piece.
RECURSIVE SplitNL(_)
SplitNL(s) ==
  LET j == RunEndNot(s, 1, {NL})
  IN IF j > Len(s) THEN <<s>>
     ELSE <<SubSeq(s, 1, j - 1)>> \o SplitNL(From(s, j + 1))

\* str.splitlines(): breaks at \n, \r and \r\n; no final empty piece.
RECURSIVE SplitLines(_)
SplitLines(s) ==
  IF Len(s) = 0 THEN <<>>
  ELSE LET j == RunEndNot(s, 1, {NL, CR})
           brk == IF j <= Len(s) /\ s[j] = CR /\ j < Len(s) /\ s[j + 1] = NL
                    THEN 2 ELSE 1
       IN IF j > Len(s) THEN <<s>>
          ELSE <<SubSeq(s, 1, j - 1)>> \o SplitLines(From(s, j + brk))

\* sep.join(parts)
RECURSIVE Join(_, _)
Join(parts, sep) ==
  IF Len(parts) = 0 THEN <<>>
  ELSE IF Len(parts) = 1 THEN parts[1]
  ELSE parts[1] \o sep \o Join(Tail(parts), sep)

(***************************************************************************)
(* Patterns (clean.py lines 32-49)                                          *)
(***************************************************************************)
\* The characters of CHINESE_CHAR_PATTERN that the model's alphabet holds.
CHINESE_CHARS == {CJK}

\* The character class MATH_SYMBOLS.
MATH_SYMBOLS ==
  {"=", "<", ">", "U+2248", "U+2264", "U+2265", "U+00B1", "U+00D7", "U+00F7",
   "U+2211", "U+220F", "U+222B", "U+221A", "U+221E", DEG, "U+03C0", "U+03BC",
   "U+03C3", "U+0394", "U+03BB", "U+03B1", "U+03B2", "U+03B3", "U+03B8",
   "U+03C6", "U+03C8", "U+03C9", "/", BSL, "^", "{", "}", "_"}

\* The bullet class of should_drop_line's second rule.
BULLET_GLYPHS ==
  {"-", BULLET, "U+25AA", "U+25E6", "U+2023", "U+2666", "U+F0D8"}

\* The end (position after) of a [^\s]+ that starts at j; 0 when it cannot.
NonSpaceRun(s, j) ==
  IF j <= Len(s) /\ s[j] \notin Space THEN RunEndNot(s, j, Space) ELSE 0

\* URL_PATTERN tried at position i: the position after the match, 0 for none.
\*   https?://[^\s]+ | www\.[a-zA-Z0-9][a-zA-Z0-9-]*\.[^\s]+
\*   | (?:doi\.org/|doi:\s*)[^\s]+
UrlMatchEnd(s, i) ==
  IF OccursAt(s, i, <<"h","t","t","p">>)
    THEN LET j == IF OccursAt(s, i + 4, <<"s">>) THEN i + 5 ELSE i + 4
         IN IF OccursAt(s, j, <<":","/","/">>) THEN NonSpaceRun(s, j + 3) ELSE 0
  ELSE IF OccursAt(s, i, <<"w","w","w",".">>)
    THEN IF i + 4 <= Len(s) /\ s[i + 4] \in AlNum
           THEN LET j == RunEnd(s, i + 5, AlNum \cup {"-"})
                IN IF j <= Len(s) /\ s[j] = "." THEN NonSpaceRun(s, j + 1) ELSE 0
           ELSE 0
  ELSE IF OccursAt(s, i, <<"d","o","i",".","o","r","g","/">>)
    THEN NonSpaceRun(s, i + 8)
  ELSE IF OccursAt(s, i, <<"d","o","i",":">>)
    THEN NonSpaceRun(s, RunEnd(s, i + 4, Space))
  ELSE 0

\* URL_PATTERN.search(s)
UrlSearch(s) == \E i \in 1..Len(s) : UrlMatchEnd(s, i) > 0

\* URL_PATTERN.sub("", s) from position i on.
RECURSIVE UrlSubFrom(_, _)
UrlSubFrom(s, i) ==
  LET m == FirstOf({j \in i..Len(s) : UrlMatchEnd(s, j) > 0})
  IN IF m = 0 THEN From(s, i)
     ELSE SubSeq(s, i, m - 1) \o UrlSubFrom(s, UrlMatchEnd(s, m))

\* The positions of the capitals of the longest chain [A-Z](\s+[A-Z])* that
\* starts at the capital at position i.
RECURSIVE CapsChain(_, _)
CapsChain(s, i) ==
  LET j == RunEnd(s, i + 1, Space)
  IN IF j > i + 1 /\ j <= Len(s) /\ s[j] \in UpperLetters
       THEN <<i>> \o CapsChain(s, j)
       ELSE <<i>>

\* \b right after the word character at position p.
WordEndsAt(s, p) == p = Len(s) \/ s[p + 1] \notin WordChars

\* SPACED_CAPS_PATTERN, \b(?:[A-Z]\s+){2,}[A-Z]\b, tried at position i: the
\* position after the match, 0 for none.  The greedy repeat takes the whole
\* chain; when no word ends after its last capital the engine gives one
\* capital back.
CapsMatchEnd(s, i) ==
  IF s[i] \in UpperLetters /\ (i = 1 \/ s[i - 1] \notin WordChars)
    THEN LET ch == CapsChain(s, i)
             k == Len(ch)
         IN IF k >= 3 /\ WordEndsAt(s, ch[k]) THEN ch[k] + 1
            ELSE IF k - 1 >= 3 THEN ch[k - 1] + 1
            ELSE 0
    ELSE 0

\* lambda match: match.group(0).replace(" ", "")
DropSpaces(m) == SelectSeq(m, LAMBDA c : c # SP)

\* SPACED_CAPS_PATTERN.sub(lambda ..., s) from position i on.
RECURSIVE CapsSubFrom(_, _)
CapsSubFrom(s, i) ==
  LET m == FirstOf({j \in i..Len(s) : CapsMatchEnd(s, j) > 0})
      e == CapsMatchEnd(s, m)
  IN IF m = 0 THEN From(s, i)
     ELSE SubSeq(s, i, m - 1) \o DropSpaces(SubSeq(s, m, e - 1))
          \o CapsSubFrom(s, e)

\* RC+ "C" tried at position i: the position after the match, 0 for none.
\* A run of replacement characters matches when a "C" follows it.
CelsiusMatchEnd(s, i) ==
  LET j == RunEnd(s, i, {RC})
  IN IF j > i /\ j <= Len(s) /\ s[j] = "C" THEN j + 1 ELSE 0

\* re.sub(RC+ "C", DEG "C", s) from position i on.
RECURSIVE CelsiusSubFrom(_, _)
CelsiusSubFrom(s, i) ==
  LET m == FirstOf({j \in i..Len(s) : CelsiusMatchEnd(s, j) > 0})
  IN IF m = 0 THEN From(s, i)
     ELSE SubSeq(s, i, m - 1) \o <<DEG, "C">>
          \o CelsiusSubFrom(s, CelsiusMatchEnd(s, m))

(***************************************************************************)
(* Text repair functions (clean.py lines 52-77 and 207-211)                 *)
(***************************************************************************)
\* Lines 207-211: the literal replacement, then the regex.
celsius_repair(text) ==
  CelsiusSubFrom(Replace(text, <<RC, RC, "C">>, <<DEG, "C">>), 1)

remove_chinese_characters(text) ==
  SelectSeq(text, LAMBDA c : c \notin CHINESE_CHARS)

remove_urls(text) == UrlSubFrom(text, 1)

collapse_spaced_capital_sequences(text) == CapsSubFrom(text, 1)

\* The prefix removal without the letter that must follow the prefix:
\* re.match(r"^\s*\d+\.\s+(.*)$", line).
RemoveNumericPrefixAnyRest(line) ==
  LET a == RunEnd(line, 1, Space)
      b == RunEnd(line, a, Digits)
      c == RunEnd(line, b + 1, Space)
      d == RunEndNot(line, c, {NL})
  IN IF /\ b > a
        /\ b <= Len(line) /\ line[b] = "."
        /\ c > b + 1
        /\ (d = Len(line) + 1 \/ d = Len(line))
       THEN SubSeq(line, c, d - 1)
       ELSE line

\* re.match(r"^\s*\d+\.\s+([A-Za-z].*)$", line): group 1, or the line itself.
\* "." stops at a newline and "$" matches at the end or before a final newline.
remove_numeric_heading_prefix(line) ==
  LET a == RunEnd(line, 1, Space)
      b == RunEnd(line, a, Digits)
      c == RunEnd(line, b + 1, Space)
      d == RunEndNot(line, c, {NL})
  IN IF /\ b > a
        /\ b <= Len(line) /\ line[b] = "."
        /\ c > b + 1
        /\ c <= Len(line) /\ line[c] \in Letters
        /\ (d = Len(line) + 1 \/ d = Len(line))
       THEN SubSeq(line, c, d - 1)
       ELSE line

(***************************************************************************)
(* Line-drop classifier (clean.py lines 80-97)                              *)
(***************************************************************************)
CAPTION_PREFIXES ==
  { <<"f","i","g","u","r","e"," ">>, <<"f","i","g","u","r","e",":">>,
    <<"f","i","g"," ">>, <<"f","i","g",".">>, <<"f","i","g",":">>,
    <<"t","a","b","l","e"," ">>, <<"t","a","b","l","e",".">>,
    <<"t","a","b","l","e",":">> }

\* The caption words without the separator that must follow them.
CaptionRuleNoSeparator(stripped) ==
  \E p \in {<<"f","i","g","u","r","e">>, <<"f","i","g">>,
             <<"t","a","b","l","e">>} : StartsWith(Lower(stripped), p)

\* Line 87: lower.startswith((...))
CaptionRule(stripped) ==
  \E p \in CAPTION_PREFIXES : StartsWith(Lower(stripped), p)

\* Line 89: ^[bullets]+\s+
BulletRule(stripped) ==
  LET b == RunEnd(stripped, 1, BULLET_GLYPHS)
  IN b > 1 /\ b <= Len(stripped) /\ stripped[b] \in Space

\* The label pattern matched against stripped itself, not lowercased.
LabelRuleLowercaseOnly(stripped) ==
  LET a == IF Len(stripped) >= 1 /\ stripped[1] = "(" THEN 2 ELSE 1
  IN /\ a + 2 <= Len(stripped)
     /\ stripped[a] \in LowerLetters
     /\ stripped[a + 1] = ")"
     /\ stripped[a + 2] \in Space

\* Line 91: ^\(?[a-z]\)\s+ matched against stripped.lower()
LabelRule(stripped) ==
  LET low == Lower(stripped)
      a == IF Len(low) >= 1 /\ low[1] = "(" THEN 2 ELSE 1
  IN /\ a + 2 <= Len(low)
     /\ low[a] \in LowerLetters
     /\ low[a + 1] = ")"
     /\ low[a + 2] \in Space

\* Line 93: ^\d+[\.\)]\s+[a-z]
NumberedItemRule(stripped) ==
  LET b == RunEnd(stripped, 1, Digits)
      c == RunEnd(stripped, b + 1, Space)
  IN /\ b > 1
     /\ b <= Len(stripped) /\ stripped[b] \in {".", ")"}
     /\ c > b + 1
     /\ c <= Len(stripped) /\ stripped[c] \in LowerLetters

\* Line 95: ^\d+[\.\)]\s*$
BareNumberRule(stripped) ==
  LET b == RunEnd(stripped, 1, Digits)
      c == RunEnd(stripped, b + 1, Space)
  IN /\ b > 1
     /\ b <= Len(stripped) /\ stripped[b] \in {".", ")"}
     /\ c = Len(stripped) + 1

should_drop_line(line) ==
  LET stripped == Strip(line)
  IN IF Len(line) = 0 THEN FALSE
     ELSE IF Len(stripped) = 0 THEN FALSE
     ELSE \/ CaptionRule(stripped)
          \/ BulletRule(stripped)
          \/ LabelRule(stripped)
          \/ NumberedItemRule(stripped)
          \/ BareNumberRule(stripped)

(***************************************************************************)
(* Math-likeness detector (clean.py lines 32-40 and 191-194)                *)
(***************************************************************************)
LATEX_TOKENS ==
  { <<BSL,"f","r","a","c">>, <<BSL,"s","q","r","t">>,
    <<BSL,"s","u","m">>, <<BSL,"i","n","t">> }

\* \b\d+/\d+\b found starting at position i.
FractionAt(s, i) ==
  /\ s[i] \in Digits
  /\ (i = 1 \/ s[i - 1] \notin WordChars)
  /\ LET j == RunEnd(s, i, Digits)
         k == RunEnd(s, j + 1, Digits)
     IN /\ j <= Len(s) /\ s[j] = "/"
        /\ k > j + 1
        /\ WordEndsAt(s, k - 1)

\* re.search(MATH_COMBINED, snippet) is not None
is_math_like(snippet) ==
  /\ Len(snippet) > 0
  /\ \E i \in 1..Len(snippet) :
       \/ \E t \in LATEX_TOKENS : OccursAt(snippet, i, t)
       \/ FractionAt(snippet, i)
       \/ /\ i + 2 <= Len(snippet)
          /\ snippet[i] \in Letters
          /\ snippet[i + 1] = "^"
          /\ snippet[i + 2] \in Digits
       \/ /\ i + 2 <= Len(snippet)
          /\ snippet[i] \in Letters
          /\ snippet[i + 1] = "_"
          /\ snippet[i + 2] \in AlNum
       \/ snippet[i] \in MATH_SYMBOLS

(***************************************************************************)
(* Page loop (clean.py lines 197-279): per-page computations                *)
(***************************************************************************)
\* Line 244: the OCR transcript must be longer than this to count as differing.
OCR_DIFF_MIN == 50
\* Line 250: a math-like line must be longer than this (stripped) to count.
MATH_LINE_MIN == 5
\* BASE (line 24): the input file's name without directory and extension.
BASE == "doc"

\* "<formula>"
FORMULA_MARKER == <<"<","f","o","r","m","u","l","a",">">>

\* "\n\n"
SEGMENT_SEPARATOR == <<NL,NL>>

\* Lines 207-214: Celsius repair, script removal, spaced-capital collapse and
\* \r\n normalisation of the extracted page text.
Step2Text(raw) ==
  LET t1 == celsius_repair(raw)
      t2 == IF Len(t1) = 0 THEN t1 ELSE remove_chinese_characters(t1)
      t3 == IF Len(t2) = 0 THEN t2 ELSE collapse_spaced_capital_sequences(t2)
  IN Replace(t3, <<CR, NL>>, <<NL>>)

\* Line 218: the drop test of a right-stripped line.
LineDroppedNever(line) == FALSE
LineDropped(line) == should_drop_line(line)

\* Lines 220-223: the transforms of a line that was not dropped.
TransformLine(line) ==
  LET l1 == remove_numeric_heading_prefix(line)
      l2 == IF Len(l1) = 0 THEN l1 ELSE collapse_spaced_capital_sequences(l1)
  IN IF \E i \in DOMAIN l2 : l2[i] \in CHINESE_CHARS
       THEN remove_chinese_characters(l2)
       ELSE l2

\* Lines 215-225: cleaned_lines for the given raw lines.
RECURSIVE FilterLines(_)
FilterLines(raw_lines) ==
  IF Len(raw_lines) = 0 THEN <<>>
  ELSE LET line == RStrip(Head(raw_lines))
           rest == FilterLines(Tail(raw_lines))
       IN IF LineDropped(line) THEN rest
          ELSE LET out == TransformLine(line)
               IN IF Len(Strip(out)) > 0 THEN <<out>> \o rest ELSE rest

\* Line 226: page_text as reassigned after the per-line filtering.
CleanPageText(raw) ==
  StripNL(Join(FilterLines(SplitLines(Step2Text(raw))), <<NL>>))

\* The value of the variable page_text that lines 244 and 249 read: line 226
\* has reassigned it by then.
SignalTextPreFilter(raw) == Step2Text(raw)
SignalText(raw) == CleanPageText(raw)

\* Line 239
OcrTrim(ocr_text) ==
  LET s == Strip(ocr_text)
  IN IF Len(s) = 0 THEN s ELSE remove_chinese_characters(s)

\* Line 244
OcrDiffers(ocr_trim, page_text) ==
  Len(ocr_trim) > OCR_DIFF_MIN /\ ~Contains(page_text, ocr_trim)

\* Lines 248-252: the (line number, line) pairs of the math-like lines.
RECURSIVE MathLinesFrom(_, _)
MathLinesFrom(lines, i) ==
  IF i > Len(lines) THEN <<>>
  ELSE IF is_math_like(lines[i]) /\ Len(Strip(lines[i])) > MATH_LINE_MIN
    THEN <<<<i, lines[i]>>>> \o MathLinesFrom(lines, i + 1)
    ELSE MathLinesFrom(lines, i + 1)
ComplexFormulaLines(page_text) == MathLinesFrom(SplitLines(page_text), 1)

\* Line 255
PageFlagged(ocr_has_math, ocr_differs, complex_formula_lines) ==
  ocr_has_math \/ ocr_differs \/ Len(complex_formula_lines) > 0

\* Lines 243-255 for the values the variables hold at line 243: signal_text
\* is what the variable page_text holds there.
FormulaSignals(page_text, signal_text, ocr_trim, complex_formula_lines) ==
  [page_text |-> page_text,
   ocr |-> ocr_trim,
   lines |-> complex_formula_lines,
   flagged |-> PageFlagged(is_math_like(ocr_trim),
                           OcrDiffers(ocr_trim, signal_text),
                           complex_formula_lines)]

\* Lines 204-255: everything one iteration computes from the page.
PageOutcomeOf(page_text, signal_text, ocr_trim) ==
  FormulaSignals(page_text, signal_text, ocr_trim,
                 ComplexFormulaLines(signal_text))

\* Lines 258-259: formula_counter after a page.
CounterAfterPageAlways(counter, flagged) == counter + 1
CounterAfterPage(counter, flagged) ==
  IF flagged THEN counter + 1 ELSE counter

\* Lines 227-228 and 266: what a page appends to collected_segments, in
\* order, each entry tagged with its page and kind.
PageEntriesMarkerFirst(page, page_text, flagged) ==
  (IF flagged
     THEN <<[page |-> page, kind |-> "marker", text |-> FORMULA_MARKER]>>
     ELSE <<>>)
  \o (IF Len(page_text) > 0
        THEN <<[page |-> page, kind |-> "text", text |-> page_text]>>
        ELSE <<>>)
PageEntries(page, page_text, flagged) ==
  (IF Len(page_text) > 0
     THEN <<[page |-> page, kind |-> "text", text |-> page_text]>>
     ELSE <<>>)
  \o (IF flagged
        THEN <<[page |-> page, kind |-> "marker", text |-> FORMULA_MARKER]>>
        ELSE <<>>)

\* Line 18: the default of --dpi.
DPI == 200
\* The resolution of a pixmap rendered without a matrix.
PDF_POINT_DPI == 72

\* Lines 177-180 and 231: the PNG bytes of a page, an opaque function of the
\* page and the resolution.
render_page_png(inp, dpi) == [raster_of |-> inp, dpi |-> dpi, complete |-> TRUE]
\* What a file holds when the write into it failed part-way.
TruncatedBytes(bytes) == [bytes EXCEPT !.complete = FALSE]

\* Line 263: the bytes written into the formula image are img_bytes again.
FormulaImageBytesRerendered(img_bytes) ==
  render_page_png(img_bytes.raster_of, PDF_POINT_DPI)
FormulaImageBytes(img_bytes) == img_bytes

\* Lines 232 and 260: file names inside IMG_DIR.
PageImageName(page) == [kind |-> "page", base |-> "", page |-> page, id |-> 0]
FormulaImageName(page, fid) ==
  [kind |-> "formula", base |-> BASE, page |-> page, id |-> fid]

\* open(name, "wb").write(bytes)
WriteFile(fs, name, bytes) ==
  [f \in DOMAIN fs \cup {name} |-> IF f = name THEN bytes ELSE fs[f]]

\* Line 279: the content of the output text file.
OutputText(segments) ==
  Join(SelectSeq(segments, LAMBDA s : Len(s) > 0), SEGMENT_SEPARATOR)

(***************************************************************************)
(* Inputs of the page loop: extracted page texts and OCR transcripts        *)
(***************************************************************************)
\* "Plain words"
TEXT_PLAIN == <<"P","l","a","i","n",SP,"w","o","r","d","s">>
\* "Figure 1: cap\nE = mc^2 ok"
TEXT_CAPTION_MATH ==
  <<"F","i","g","u","r","e",SP,"1",":",SP,"c","a","p",NL,"E",SP,"=",SP,"m",
    "c","^","2",SP,"o","k">>
\* "- x = 5 + y"
TEXT_BULLET_MATH == <<"-",SP,"x",SP,"=",SP,"5",SP,"+",SP,"y">>
\* "1. Figure 2 shown"
TEXT_NUMBERED_CAPTION ==
  <<"1",".",SP,"F","i","g","u","r","e",SP,"2",SP,"s","h","o","w","n">>
\* "F I G 1 shows"
TEXT_SPACED_CAPTION ==
  <<"F",SP,"I",SP,"G",SP,"1",SP,"s","h","o","w","s">>
\* "1. Introduction\r\nN A S A data"
TEXT_HEADING ==
  <<"1",".",SP,"I","n","t","r","o","d","u","c","t","i","o","n",CR,NL,"N",SP,
    "A",SP,"S",SP,"A",SP,"d","a","t","a">>
\* "T is 25<U+FFFD><U+FFFD>C <U+4E2D>\n(a) item"
TEXT_CELSIUS ==
  <<"T",SP,"i","s",SP,"2","5",RC,RC,"C",SP,CJK,NL,"(","a",")",SP,"i","t",
    "e","m">>
\* "Table 1 lists\nThe quick brown fox jumps over the lazy dog and stops"
TEXT_LONG ==
  <<"T","a","b","l","e",SP,"1",SP,"l","i","s","t","s",NL,"T","h","e",SP,"q",
    "u","i","c","k",SP,"b","r","o","w","n",SP,"f","o","x",SP,"j","u","m",
    "p","s",SP,"o","v","e","r",SP,"t","h","e",SP,"l","a","z","y",SP,"d","o",
    "g",SP,"a","n","d",SP,"s","t","o","p","s">>
\* "x_1 + x_2 = 10"
TEXT_SUBSCRIPT == <<"x","_","1",SP,"+",SP,"x","_","2",SP,"=",SP,"1","0">>
\* " x_1 = 2\n"
OCR_MATH == <<SP,"x","_","1",SP,"=",SP,"2",NL>>
\* "Table 1 lists\nThe quick brown fox jumps over the lazy dog and stops\n"
OCR_LONG ==
  <<"T","a","b","l","e",SP,"1",SP,"l","i","s","t","s",NL,"T","h","e",SP,"q",
    "u","i","c","k",SP,"b","r","o","w","n",SP,"f","o","x",SP,"j","u","m",
    "p","s",SP,"o","v","e","r",SP,"t","h","e",SP,"l","a","z","y",SP,"d","o",
    "g",SP,"a","n","d",SP,"s","t","o","p","s",NL>>
\* "<U+4E2D>The quick brown fox jumps over the lazy dog and stops"
OCR_BODY ==
  <<CJK,"T","h","e",SP,"q","u","i","c","k",SP,"b","r","o","w","n",SP,"f",
    "o","x",SP,"j","u","m","p","s",SP,"o","v","e","r",SP,"t","h","e",SP,"l",
    "a","z","y",SP,"d","o","g",SP,"a","n","d",SP,"s","t","o","p","s">>

\* What page.get_text("text") returns (line 204) for the pages of the model,
\* by page content.
PAGE_TEXT_OF ==
  ("empty" :> <<>>) @@ ("plain" :> TEXT_PLAIN)
  @@ ("caption_math" :> TEXT_CAPTION_MATH) @@ ("bullet_math" :> TEXT_BULLET_MATH)
  @@ ("numbered_caption" :> TEXT_NUMBERED_CAPTION) @@ ("heading" :> TEXT_HEADING)
  @@ ("celsius" :> TEXT_CELSIUS) @@ ("long" :> TEXT_LONG)
  @@ ("subscript" :> TEXT_SUBSCRIPT) @@ ("spaced_caption" :> TEXT_SPACED_CAPTION)

\* What ocr_image_bytes returns (lines 183-188 and 237), by page raster.
OCR_TEXT_OF ==
  ("blank" :> <<>>) @@ ("math" :> OCR_MATH) @@ ("long" :> OCR_LONG)
  @@ ("body" :> OCR_BODY)

Page(text, ocr) == [text |-> text, ocr |-> ocr]

\* The pages a document is made of: what is extracted from a page and what
\* is recognised on its raster.
PAGE_INPUTS ==
  { Page("empty", "blank"), Page("empty", "math"),
    Page("plain", "blank"), Page("plain", "math"),
    Page("caption_math", "blank"), Page("bullet_math", "blank"),
    Page("numbered_caption", "blank"), Page("spaced_caption", "blank"),
    Page("heading", "blank"),
    Page("celsius", "blank"), Page("long", "long"), Page("long", "body"),
    Page("subscript", "blank"), Page("subscript", "math") }

\* Lines 204-255 for the page inp.
PageOutcome(inp) ==
  PageOutcomeOf(CleanPageText(PAGE_TEXT_OF[inp.text]),
                SignalText(PAGE_TEXT_OF[inp.text]),
                OcrTrim(OCR_TEXT_OF[inp.ocr]))

\* PageOutcome tabulated over the pages: an iteration's computations depend
\* on the page alone, not on the state of the loop.
PAGE_OUTCOMES == [inp \in PAGE_INPUTS |-> PageOutcome(inp)] @@ <<>>

(***************************************************************************)
(* State                                                                    *)
(***************************************************************************)
VARIABLES
  status,              \* where the script is: "start", "running", "failed", "done"
  fail_stage,          \* the call that raised, "none" while nothing has
  total_pages,         \* pdf.page_count
  pno,                 \* the number of loop iterations completed
  pages,               \* history: the pages whose text has been extracted so far
  formula_counter,     \* line 197
  formula_records,     \* line 198
  collected_segments,  \* line 199
  segment_src,         \* history: the page and kind of each entry of collected_segments
  files,               \* IMG_DIR: file name -> bytes
  writes,              \* history: the image files in the order they were opened for writing
  out_txt,             \* the content of OUT_TXT
  out_writes,          \* how many times OUT_TXT has been written
  call,                \* a call of a repair function or of should_drop_line
  art                  \* an activation of clean_article_info_section

vars ==
  <<status, fail_stage, total_pages, pno, pages, formula_counter,
    formula_records, collected_segments, segment_src, files, writes,
    out_txt, out_writes, call, art>>

loop_vars ==
  <<status, fail_stage, total_pages, pno, pages, formula_counter,
    formula_records, collected_segments, segment_src, files, writes,
    out_txt, out_writes>>

\* The most pages a document of the model has.
MaxPages == 2

\* The calls of one iteration that can raise, in program order.
PAGE_FAIL_STAGES == {"get_text", "render", "page_write", "ocr", "formula_write"}

NoCall == [fn |-> "none", input |-> <<>>, n |-> 0, first |-> <<>>, out |-> <<>>]
NoArt == [pc |-> "idle"]

\* Lines 197-199, before fitz.open: nothing accumulated, IMG_DIR fresh.
LoopInit ==
  /\ status = "start"
  /\ fail_stage = "none"
  /\ total_pages = 0
  /\ pno = 0
  /\ pages = <<>>
  /\ formula_counter = 0
  /\ formula_records = <<>>
  /\ collected_segments = <<>>
  /\ segment_src = <<>>
  /\ files = <<>>
  /\ writes = <<>>
  /\ out_txt = <<>>
  /\ out_writes = 0

Init ==
  /\ LoopInit
  /\ call = NoCall
  /\ art = NoArt

(***************************************************************************)
(* Page loop actions                                                        *)
(***************************************************************************)
\* Lines 200-201: fitz.open succeeds on a document of n pages.
OpenPdf(n) ==
  /\ status = "start"
  /\ status' = "running"
  /\ total_pages' = n
  /\ UNCHANGED <<fail_stage, pno, pages, formula_counter, formula_records,
                 collected_segments, segment_src, files, writes, out_txt,
                 out_writes, call, art>>

\* Line 200: fitz.open raises; nothing catches it.
OpenPdfFails ==
  /\ status = "start"
  /\ status' = "failed"
  /\ fail_stage' = "open"
  /\ UNCHANGED <<total_pages, pno, pages, formula_counter, formula_records,
                 collected_segments, segment_src, files, writes, out_txt,
                 out_writes, call, art>>

EntryTexts(entries) == [i \in DOMAIN entries |-> entries[i].text]
EntrySources(entries) ==
  [i \in DOMAIN entries |-> [page |-> entries[i].page, kind |-> entries[i].kind]]

\* Lines 202-275: one whole iteration of the page loop on the page inp.
ProcessPage(inp) ==
  /\ status = "running"
  /\ pno < total_pages
  /\ \E o \in {PAGE_OUTCOMES[inp]} :
       LET page == pno + 1
           img_bytes == render_page_png(inp, DPI)
           fid == CounterAfterPage(formula_counter, o.flagged)
           imgfile == FormulaImageName(page, fid)
           entries == PageEntries(page, o.page_text, o.flagged)
           files1 == WriteFile(files, PageImageName(page), img_bytes)
       IN /\ collected_segments' = collected_segments \o EntryTexts(entries)
          /\ segment_src' = segment_src \o EntrySources(entries)
          /\ files' = IF o.flagged
                        THEN WriteFile(files1, imgfile, FormulaImageBytes(img_bytes))
                        ELSE files1
          /\ writes' = writes \o <<PageImageName(page)>>
                         \o (IF o.flagged THEN <<imgfile>> ELSE <<>>)
          /\ formula_counter' = fid
          /\ formula_records' =
               IF o.flagged
                 THEN Append(formula_records,
                             [id |-> fid, page |-> page, imgfile |-> imgfile,
                              ocr |-> o.ocr, lines |-> o.lines])
                 ELSE formula_records
          /\ pno' = pno + 1
          /\ pages' = Append(pages, inp)
  /\ UNCHANGED <<status, fail_stage, total_pages, out_txt, out_writes, call, art>>

\* Lines 202-263 up to a call that raises: the iteration stops at stage with
\* what it did before; created says whether a failing write had already
\* created its file.  Nothing catches the exception.
PageFails(inp, stage, created) ==
  /\ status = "running"
  /\ pno < total_pages
  /\ stage \in PAGE_FAIL_STAGES
  /\ created => stage \in {"page_write", "formula_write"}
  /\ \E o \in {PAGE_OUTCOMES[inp]} :
       LET page == pno + 1
           img_bytes == render_page_png(inp, DPI)
           fid == CounterAfterPage(formula_counter, o.flagged)
           entries == IF stage = "get_text" THEN <<>>
                      ELSE PageEntries(page, o.page_text, FALSE)
           files1 ==
             CASE stage \in {"get_text", "render"} -> files
               [] stage = "page_write" ->
                    IF created
                      THEN WriteFile(files, PageImageName(page),
                                     TruncatedBytes(img_bytes))
                      ELSE files
               [] OTHER -> WriteFile(files, PageImageName(page), img_bytes)
           writes1 ==
             IF \/ stage \in {"get_text", "render"}
                \/ (stage = "page_write" /\ ~created)
               THEN writes
               ELSE Append(writes, PageImageName(page))
       IN /\ stage = "formula_write" => o.flagged
          /\ collected_segments' = collected_segments \o EntryTexts(entries)
          /\ segment_src' = segment_src \o EntrySources(entries)
          /\ formula_counter' =
               IF stage = "formula_write" THEN fid ELSE formula_counter
          /\ files' =
               IF stage = "formula_write" /\ created
                 THEN WriteFile(files1, FormulaImageName(page, fid),
                                TruncatedBytes(FormulaImageBytes(img_bytes)))
                 ELSE files1
          /\ writes' =
               IF stage = "formula_write" /\ created
                 THEN Append(writes1, FormulaImageName(page, fid))
                 ELSE writes1
  /\ pages' = IF stage = "get_text" THEN pages ELSE Append(pages, inp)
  /\ status' = "failed"
  /\ fail_stage' = stage
  /\ UNCHANGED <<total_pages, pno, formula_records, out_txt, out_writes,
                 call, art>>

\* Lines 202 and 277: the loop has run through every page without a raise.
OutputWriteReachedAfterFailure ==
  status \in {"running", "failed"} /\ fail_stage # "out_write"
OutputWriteReached == status = "running" /\ pno = total_pages

\* Lines 278-279: the single write of the output text file.
WriteOutput ==
  /\ OutputWriteReached
  /\ out_txt' = OutputText(collected_segments)
  /\ out_writes' = out_writes + 1
  /\ status' = "done"
  /\ UNCHANGED <<fail_stage, total_pages, pno, pages, formula_counter,
                 formula_records, collected_segments, segment_src, files,
                 writes, call, art>>

\* Lines 278-279: opening or writing the output text file raises.
WriteOutputFails ==
  /\ OutputWriteReached
  /\ status' = "failed"
  /\ fail_stage' = "out_write"
  /\ UNCHANGED <<total_pages, pno, pages, formula_counter, formula_records,
                 collected_segments, segment_src, files, writes, out_txt,
                 out_writes, call, art>>

Next ==
  \/ \E n \in 0..MaxPages : OpenPdf(n)
  \/ OpenPdfFails
  \/ \E inp \in PAGE_INPUTS : ProcessPage(inp)
  \/ \E inp \in PAGE_INPUTS, stage \in PAGE_FAIL_STAGES, created \in BOOLEAN :
       PageFails(inp, stage, created)
  \/ WriteOutput
  \/ WriteOutputFails

Spec == Init /\ [][Next]_vars

(***************************************************************************)
(* Properties of the page loop                                              *)
(***************************************************************************)
\* The script is between two iterations, or past the loop: no iteration was
\* cut short by a raise.
AtLoopBoundary == status # "failed" \/ fail_stage \in {"open", "out_write"}

\* The positions of collected_segments that page k produced, by kind.
EntriesOf(k, kind) ==
  {i \in DOMAIN segment_src : segment_src[i] = [page |-> k, kind |-> kind]}

\* The text segment page k appended, the empty string when it appended none.
SegmentTextOf(k) ==
  IF EntriesOf(k, "text") = {} THEN <<>>
  ELSE collected_segments[CHOOSE i \in EntriesOf(k, "text") : TRUE]

\* The positions of the formula records of page k.
RecordsOf(k) == {i \in DOMAIN formula_records : formula_records[i].page = k}

\* C1: the formula records carry the ids 1, 2, ..., n in creation order, each
\* page has at most one record so the records' page numbers strictly increase,
\* and between iterations formula_counter is the number of records.
C1_IdsDense ==
  /\ \A i \in DOMAIN formula_records : formula_records[i].id = i
  /\ \A i, j \in DOMAIN formula_records :
       i < j => formula_records[i].page < formula_records[j].page
  /\ AtLoopBoundary => formula_counter = Len(formula_records)

\* C1 witness: two pages processed and both flagged, ids 1 and 2.
C1_Witness ==
  /\ status = "done"
  /\ pno = 2
  /\ Len(formula_records) = 2
  /\ formula_records[2].id = 2

\* The state part of C2: page order, one text and one marker per page at
\* most, the marker right after the page's own text.
SegmentsOrdered ==
  /\ Len(segment_src) = Len(collected_segments)
  /\ \A i, j \in DOMAIN segment_src :
       i < j =>
         /\ segment_src[i].page <= segment_src[j].page
         /\ segment_src[i].page = segment_src[j].page =>
              /\ segment_src[i].kind = "text"
              /\ segment_src[j].kind = "marker"
              /\ j = i + 1
  /\ \A i \in DOMAIN segment_src :
       /\ segment_src[i].kind = "marker" =>
            /\ collected_segments[i] = FORMULA_MARKER
            /\ RecordsOf(segment_src[i].page) # {}
       /\ segment_src[i].kind = "text" => Len(collected_segments[i]) > 0
  /\ \A r \in DOMAIN formula_records :
       EntriesOf(formula_records[r].page, "marker") # {}

\* The action part of C2: a step only appends to collected_segments.
SegmentsAppendOnly ==
  /\ Len(collected_segments') >= Len(collected_segments)
  /\ SubSeq(collected_segments', 1, Len(collected_segments)) = collected_segments

\* C2: collected_segments is in ascending page order, each page contributes
\* at most one text segment followed by at most one "<formula>" marker, the
\* marker of a flagged page sits right after that page's own text segment
\* (or after the previous pages' entries), and entries are only appended.
C2_SegmentOrder == []SegmentsOrdered /\ [][SegmentsAppendOnly]_vars

\* C2 witness: page 1 gave a text segment and a marker, page 2 a marker only.
C2_Witness ==
  /\ Len(segment_src) = 3
  /\ segment_src[1] = [page |-> 1, kind |-> "text"]
  /\ segment_src[2] = [page |-> 1, kind |-> "marker"]
  /\ segment_src[3] = [page |-> 2, kind |-> "marker"]

\* The three signals of page k when they read the text signal_text, and what
\* the loop recorded for the page.
SignalsMatch(k, signal_text, ocr_trim, complex_formula_lines) ==
  /\ RecordsOf(k) # {}
       <=> PageFlagged(is_math_like(ocr_trim),
                       OcrDiffers(ocr_trim, signal_text),
                       complex_formula_lines)
  /\ \A r \in RecordsOf(k) : formula_records[r].lines = complex_formula_lines
SignalsReadText(k, signal_text) ==
  SignalsMatch(k, signal_text, OcrTrim(OCR_TEXT_OF[pages[k].ocr]),
               ComplexFormulaLines(signal_text))

\* C3 as stated: signals (b) and (c) of every processed page read the page
\* text as it stands after step 2, before the per-line filtering.
C3_SignalsReadPreFilterText ==
  \A k \in 1..pno : SignalsReadText(k, Step2Text(PAGE_TEXT_OF[pages[k].text]))

\* C3 amended: signals (b) and (c) of every processed page read the page text
\* as it stands after the per-line filtering, the very text appended as the
\* page's segment (the empty string when nothing survived).
C3_SignalsReadFilteredText ==
  \A k \in 1..pno : SignalsReadText(k, SegmentTextOf(k))

\* C3 witness: a processed page whose only math-like line is a bullet line
\* that the filter drops, with a blank OCR transcript; it was not flagged.
C3_Witness ==
  /\ pno >= 1
  /\ pages[1] = [text |-> "bullet_math", ocr |-> "blank"]
  /\ formula_records = <<>>

C5_FailFast ==
  /\ [][status = "failed" => UNCHANGED vars]_vars
  /\ [](out_writes > 0 =>
          /\ out_writes = 1
          /\ status = "done"
          /\ fail_stage = "none"
          /\ pno = total_pages)

\* C5 witness: OCR raised on page 2 after page 1 had been processed; the
\* output file is unwritten.
C5_Witness ==
  /\ status = "failed"
  /\ fail_stage = "ocr"
  /\ pno = 1
  /\ Len(pages) = 2
  /\ out_writes = 0

\* The lines of the text segments, each with the page it came from.
SegmentLines ==
  UNION { {[page |-> segment_src[i].page, line |-> l] :
             l \in Range(SplitLines(collected_segments[i]))} :
          i \in {j \in DOMAIN segment_src : segment_src[j].kind = "text"} }

LineIsClean(line) ==
  /\ Len(Strip(line)) > 0
  /\ \A i \in DOMAIN line : line[i] \notin CHINESE_CHARS

\* C10 as stated: every line of every text segment is non-blank, holds no
\* CJK code point and is not a line should_drop_line drops.
C10_KeptLinesNotDroppable ==
  \A e \in SegmentLines : LineIsClean(e.line) /\ ~should_drop_line(e.line)

\* The right-stripped lines of the page text after step 2.
Step2Lines(raw) ==
  {RStrip(l) : l \in Range(SplitLines(Step2Text(raw)))}

\* line is what the two line transformations make of a line of the page
\* that passed the drop test.
KeptFrom(line, step2_lines) ==
  \E r \in step2_lines :
    /\ ~should_drop_line(r)
    /\ collapse_spaced_capital_sequences(remove_numeric_heading_prefix(r)) = line

\* C10 amended: every line of every text segment is non-blank, holds no CJK
\* code point and is what heading-prefix removal and capitals collapsing
\* make of a page line that passed the drop test; the drop test is not
\* applied to the transformed line.
C10_KeptLinesPassedDropTest ==
  \A e \in SegmentLines :
    /\ LineIsClean(e.line)
    /\ KeptFrom(e.line, Step2Lines(PAGE_TEXT_OF[pages[e.page].text]))

\* C10 witness: the page "1. Figure 2 shown" left the caption line
\* "Figure 2 shown" in its segment.
C10_Witness ==
  /\ pno >= 1
  /\ pages[1].text = "numbered_caption"
  /\ \E e \in SegmentLines : e.page = 1 /\ should_drop_line(e.line)

(***************************************************************************)
(* The text repair functions, called on their own                          *)
(***************************************************************************)
\* The longest input, counted in fragments, is MaxFragments plus a margin
\* that depends on how many fragments each function has to choose from.
MaxFragments == 4

\* How many times a repair function is applied to its own result.
MaxApplications == 2

REPAIR_FUNCTIONS ==
  {"celsius_repair", "remove_chinese_characters", "remove_urls",
   "collapse_spaced_capital_sequences", "remove_numeric_heading_prefix"}

\* "http://", "https://", "www.", "doi:", "doi.org/"
URL_FRAGMENTS ==
  { <<"h","t","t","p",":","/","/">>, <<"h","t","t","p","s",":","/","/">>,
    <<"w","w","w",".">>, <<"d","o","i",":">>,
    <<"d","o","i",".","o","r","g","/">>,
    <<"a">>, <<".">>, <<"-">>, <<SP>> }

\* The pieces the inputs of a repair function are put together from.
RepairFragments(fn) ==
  CASE fn = "celsius_repair" -> {<<RC>>, <<"C">>, <<DEG>>, <<"a">>}
    [] fn = "remove_chinese_characters" -> {<<CJK>>, <<"a">>, <<SP>>}
    [] fn = "remove_urls" -> URL_FRAGMENTS
    [] fn = "collapse_spaced_capital_sequences" ->
         {<<"A">>, <<SP>>, <<TAB>>, <<"a">>}
    [] fn = "remove_numeric_heading_prefix" ->
         {<<"1">>, <<".", SP>>, <<"a">>, <<SP>>, <<NL>>}

RepairInputLength(fn) ==
  CASE fn = "remove_urls" -> MaxFragments - 1
    [] fn = "remove_numeric_heading_prefix" -> MaxFragments + 1
    [] OTHER -> MaxFragments + 2

RECURSIVE Concat(_)
Concat(parts) ==
  IF Len(parts) = 0 THEN <<>> ELSE Head(parts) \o Concat(Tail(parts))

\* Every string made of at most n of the given fragments.
StringsOf(fragments, n) ==
  {Concat(parts) : parts \in UNION {[1..k -> fragments] : k \in 0..n}}

RepairInputs(fn) == StringsOf(RepairFragments(fn), RepairInputLength(fn))

\* The repair function named fn, applied to s.
ApplyRepair(fn, s) ==
  CASE fn = "celsius_repair" -> celsius_repair(s)
    [] fn = "remove_chinese_characters" ->
         IF Len(s) = 0 THEN s ELSE remove_chinese_characters(s)
    [] fn = "remove_urls" -> IF Len(s) = 0 THEN s ELSE remove_urls(s)
    [] fn = "collapse_spaced_capital_sequences" ->
         IF Len(s) = 0 THEN s ELSE collapse_spaced_capital_sequences(s)
    [] fn = "remove_numeric_heading_prefix" ->
         IF Len(s) = 0 THEN s ELSE remove_numeric_heading_prefix(s)

\* A string is handed to a repair function for the first time.
RepairInit ==
  /\ LoopInit
  /\ art = NoArt
  /\ \E fn \in REPAIR_FUNCTIONS :
       \E s \in RepairInputs(fn) :
         call = [fn |-> fn, input |-> s, n |-> 0, first |-> <<>>, out |-> s]

\* The function fn is applied to the result so far: the input at first, its
\* own result afterwards.
Repair(fn) ==
  /\ call.fn = fn
  /\ call.n < MaxApplications
  /\ \E r \in {ApplyRepair(fn, call.out)} :
       call' = [call EXCEPT !.n = @ + 1,
                            !.out = r,
                            !.first = IF call.n = 0 THEN r ELSE @]
  /\ UNCHANGED <<loop_vars, art>>

RepairNext ==
  \/ Repair("celsius_repair")
  \/ Repair("remove_chinese_characters")
  \/ Repair("remove_urls")
  \/ Repair("collapse_spaced_capital_sequences")
  \/ Repair("remove_numeric_heading_prefix")

RepairSpec == RepairInit /\ [][RepairNext]_vars

\* C8: every repair function is idempotent: applying it again to its own
\* result gives the result of the first application.
C8_RepairsIdempotent ==
  (call.fn \in REPAIR_FUNCTIONS /\ call.n >= 1) => call.out = call.first

\* C8 witness: spaced capitals were collapsed by the first application and
\* the function has been applied to that result again.
C8_Witness ==
  /\ call.fn = "collapse_spaced_capital_sequences"
  /\ call.n = 2
  /\ call.first # call.input
  /\ call.out = call.first

(***************************************************************************)
(* should_drop_line, called on its own                                     *)
(***************************************************************************)
\* "Figure", "fig" and the characters the five rules look at, the marks
\* also with a space after them.
DROP_FRAGMENTS ==
  { <<"F","i","g","u","r","e">>, <<"f","i","g">>, <<"s">>, <<":">>, <<".">>,
    <<".", SP>>, <<SP>>, <<"1">>, <<"(">>, <<")">>, <<")", SP>>, <<"a">>,
    <<"A">>, <<"-", SP>>, <<BULLET>> }

\* "Figure 1: Results"
LINE_FIGURE_1 ==
  <<"F","i","g","u","r","e",SP,"1",":",SP,"R","e","s","u","l","t","s">>
\* "Figure."
LINE_FIGURE_DOT == <<"F","i","g","u","r","e",".">>
\* "Figures are great"
LINE_FIGURES_ARE_GREAT ==
  <<"F","i","g","u","r","e","s",SP,"a","r","e",SP,"g","r","e","a","t">>
\* "<U+F0D8><U+25AA> item"
LINE_TWO_GLYPHS == <<"U+F0D8", "U+25AA", SP, "i", "t", "e", "m">>
\* "TABLE. 2"
LINE_TABLE_DOT == <<"T","A","B","L","E",".",SP,"2">>
\* "Tables follow"
LINE_TABLES == <<"T","a","b","l","e","s",SP,"f","o","l","l","o","w">>
\* "12)\tnext"
LINE_NUMBERED == <<"1","2",")",TAB,"n","e","x","t">>

DROP_EXAMPLES ==
  { LINE_FIGURE_1, Upper(LINE_FIGURE_1), Lower(LINE_FIGURE_1),
    LINE_FIGURE_DOT, Upper(LINE_FIGURE_DOT), LINE_FIGURES_ARE_GREAT,
    LINE_TWO_GLYPHS, LINE_TABLE_DOT, LINE_TABLES, LINE_NUMBERED,
    <<SP, TAB, SP>> }

DropInputs == StringsOf(DROP_FRAGMENTS, MaxFragments - 1) \cup DROP_EXAMPLES

\* A line is about to be handed to should_drop_line.
DropInit ==
  /\ LoopInit
  /\ art = NoArt
  /\ \E s \in DropInputs :
       call = [fn |-> "should_drop_line", input |-> s, n |-> 0,
               first |-> <<>>, out |-> <<>>]

\* Lines 80-97: should_drop_line(line) returns.
DropLine ==
  /\ call.fn = "should_drop_line"
  /\ call.n = 0
  /\ call' = [call EXCEPT !.n = 1, !.out = should_drop_line(call.input)]
  /\ UNCHANGED <<loop_vars, art>>

DropNext == DropLine

DropSpec == DropInit /\ [][DropNext]_vars

\* should_drop_line has returned for the line call.input.
DropReturned == call.fn = "should_drop_line" /\ call.n = 1

\* Rule 1: a caption prefix of the fixed list, in any letter case.
ListedCaptionPrefix(s) ==
  \E p \in CAPTION_PREFIXES :
    Len(s) >= Len(p) /\ Lower(SubSeq(s, 1, Len(p))) = p

\* Rule 2 as stated: one bullet glyph, then whitespace.
OneBulletGlyph(s) ==
  Len(s) >= 2 /\ s[1] \in BULLET_GLYPHS /\ s[2] \in Space

\* Rule 2 as coded: one or more bullet glyphs, then whitespace.
SomeBulletGlyphs(s) ==
  \E k \in 1..(Len(s) - 1) :
    (\A i \in 1..k : s[i] \in BULLET_GLYPHS) /\ s[k + 1] \in Space

\* Rule 3: an optional "(", one of the given letters, ")", whitespace.
ListLabel(s, letters) ==
  \E a \in {0, 1} :
    /\ a = 1 => s[1] = "("
    /\ Len(s) >= a + 3
    /\ s[a + 1] \in letters
    /\ s[a + 2] = ")"
    /\ s[a + 3] \in Space

\* The first k characters of s are digits and a "." or ")" follows them.
DigitsThenMark(s, k) ==
  /\ k + 1 <= Len(s)
  /\ \A i \in 1..k : s[i] \in Digits
  /\ s[k + 1] \in {".", ")"}

\* Rule 4: digits, "." or ")", whitespace, a lowercase letter.
NumberedItem(s) ==
  \E k \in 1..Len(s), m \in 1..Len(s) :
    /\ DigitsThenMark(s, k)
    /\ m >= k + 2
    /\ \A i \in (k + 2)..m : s[i] \in Space
    /\ m + 1 <= Len(s)
    /\ s[m + 1] \in LowerLetters

\* Rule 5: the whole line is digits and a "." or ")".
BareNumber(s) ==
  \E k \in 1..Len(s) : DigitsThenMark(s, k) /\ Len(s) = k + 1

FiveRulesAsStated(s) ==
  \/ ListedCaptionPrefix(s)
  \/ OneBulletGlyph(s)
  \/ ListLabel(s, LowerLetters)
  \/ NumberedItem(s)
  \/ BareNumber(s)

FiveRulesAmended(s) ==
  \/ ListedCaptionPrefix(s)
  \/ SomeBulletGlyphs(s)
  \/ ListLabel(s, Letters)
  \/ NumberedItem(s)
  \/ BareNumber(s)

\* C6 as stated: should_drop_line returns true exactly when the stripped
\* line is non-empty and satisfies one of: a listed caption prefix, ONE
\* bullet glyph then whitespace, a LOWERCASE list label, a numbered item, a
\* bare number; a line with an uppercase label or two bullet glyphs is kept.
C6_FiveRulesAsStated ==
  DropReturned =>
    (call.out <=> (/\ Len(Strip(call.input)) > 0
                   /\ FiveRulesAsStated(Strip(call.input))))

\* C6 amended: should_drop_line returns true exactly when the stripped line
\* is non-empty and satisfies one of: a listed caption prefix, one OR MORE
\* bullet glyphs then whitespace, a list label whose letter is of EITHER
\* case, a numbered item, a bare number.
C6_FiveRulesAmended ==
  DropReturned =>
    (call.out <=> (/\ Len(Strip(call.input)) > 0
                   /\ FiveRulesAmended(Strip(call.input))))

\* C6 witness: the line "A) a", whose label is an uppercase letter, was
\* dropped.
C6_Witness ==
  /\ DropReturned
  /\ call.input = <<"A", ")", SP, "a">>
  /\ call.out = TRUE

CAPTION_WORDS ==
  {<<"f","i","g","u","r","e">>, <<"f","i","g">>, <<"t","a","b","l","e">>}

\* What C7 says of lines other than "Figure.": "Figure 1: ..." is dropped in
\* any letter case, "Figures are great" and any line whose caption word runs
\* on into an "s" is kept.
CaptionExamples(line, dropped) ==
  /\ StartsWith(Lower(line), Lower(SubSeq(LINE_FIGURE_1, 1, 9))) => dropped
  /\ line = LINE_FIGURES_ARE_GREAT => ~dropped
  /\ \A w \in CAPTION_WORDS : StartsWith(Lower(line), w \o <<"s">>) => ~dropped

\* C7 as stated: "Figure 1: ..." is dropped in any letter case, the line
\* "Figure." alone is dropped, "Figures are great" is not dropped.
C7_CaptionsAsStated ==
  DropReturned =>
    /\ CaptionExamples(call.input, call.out)
    /\ Lower(call.input) = Lower(LINE_FIGURE_DOT) => call.out

\* C7 amended: "Figure 1: ..." is dropped in any letter case, "Figures are
\* great" is not dropped, and the line "Figure." alone is NOT dropped: the
\* prefix list has "fig." and "table." but no "figure.".
C7_CaptionsAmended ==
  DropReturned =>
    /\ CaptionExamples(call.input, call.out)
    /\ Lower(call.input) = Lower(LINE_FIGURE_DOT) => ~call.out

\* C7 witness: should_drop_line returned false for the line "Figure.".
C7_Witness ==
  /\ DropReturned
  /\ call.input = LINE_FIGURE_DOT
  /\ call.out = FALSE

(***************************************************************************)
(* clean_article_info_section (clean.py lines 100-173), step by step       *)
(***************************************************************************)
ABSTRACT_KEYWORD == <<"A","B","S","T","R","A","C","T">>

\* Lines 134-135.
METADATA_KEYWORDS ==
  { <<"A","R","T","I","C","L","E",SP,"I","N","F","O">>,
    <<"A","R","T","I","C","L","E",SP,"I","N","F","O","R","M","A","T","I",
      "O","N">>,
    <<"A","R","T","I","C","L","E",SP,"H","I","S","T","O","R","Y">>,
    <<"K","E","Y","W","O","R","D","S">> }

\* Lines 149-152.
TITLE_EXCLUSIONS ==
  { <<"r","e","c","e","i","v","e","d",":">>,
    <<"a","c","c","e","p","t","e","d",":">>,
    <<"p","u","b","l","i","s","h","e","d",":">>,
    <<"d","o","i",":">>,
    <<"d","o","i",".","o","r","g">>,
    <<"k","e","y","w","o","r","d","s",":">>,
    <<"c","o","p","y","r","i","g","h","t">>,
    <<COPYRIGHT>>,
    <<"e","l","s","e","v","i","e","r">>,
    <<"s","p","r","i","n","g","e","r">>,
    <<"a","l","l",SP,"r","i","g","h","t","s",SP,"r","e","s","e","r","v","e",
      "d">>,
    <<"a","r","t","i","c","l","e",SP,"h","i","s","t","o","r","y">>,
    <<"a","v","a","i","l","a","b","l","e",SP,"o","n","l","i","n","e">>,
    <<"e","-","m","a","i","l",":">>,
    <<"e","m","a","i","l",":">>,
    <<"c","o","r","r","e","s","p","o","n","d","e","n","c","e",":">>,
    <<"@">> }

\* Line 121 with the flag ignored: every ABSTRACT line counts as the marker.
IsAbstractMarkerAgain(upper, found_abstract) ==
  Contains(upper, ABSTRACT_KEYWORD)

\* Line 121: 'ABSTRACT' in upper and not found_abstract
IsAbstractMarker(upper, found_abstract) ==
  Contains(upper, ABSTRACT_KEYWORD) /\ ~found_abstract

\* Lines 133-135: not found_abstract and any(keyword in upper ...)
IsMetadataMarker(upper, found_abstract) ==
  ~found_abstract /\ \E k \in METADATA_KEYWORDS : Contains(upper, k)

\* Lines 146-154: the line is buffered as a title line.
IsTitleLine(line) ==
  LET stripped == Strip(line)
  IN /\ Len(stripped) > 0
     /\ ~\E k \in TITLE_EXCLUSIONS : Contains(Lower(stripped), k)
     /\ ~UrlSearch(stripped)

\* remove_urls as called: "if not text: return text" comes first.
RemoveUrlsOf(line) == IF Len(line) = 0 THEN line ELSE remove_urls(line)

\* Lines 165-173: what the function returns once the loop is over.
ArticleResult(lines, found_abstract, cleaned_lines) ==
  IF found_abstract THEN Join(cleaned_lines, <<NL>>)
  ELSE Join(SelectSeq([j \in DOMAIN lines |-> RemoveUrlsOf(lines[j])],
                      LAMBDA l : Len(Strip(l)) > 0),
            <<NL>>)

\* The mode the three flags stand for.
ModeOf(found_abstract, skip_until_abstract) ==
  IF found_abstract THEN "post-abstract"
  ELSE IF skip_until_abstract THEN "skipping metadata"
  ELSE "collecting title"

\* "My Title"
LINE_TITLE == <<"M","y",SP,"T","i","t","l","e">>
\* "Article info"
LINE_INFO == <<"A","r","t","i","c","l","e",SP,"i","n","f","o">>
\* "Abstract"
LINE_ABSTRACT == <<"A","b","s","t","r","a","c","t">>
\* "see www.a.b"
LINE_URL == <<"s","e","e",SP,"w","w","w",".","a",".","b">>
\* "a@b"
LINE_CUE == <<"a","@","b">>
\* "Body"
LINE_BODY == <<"B","o","d","y">>

ARTICLE_LINES ==
  {LINE_TITLE, LINE_INFO, LINE_ABSTRACT, LINE_URL, LINE_CUE, LINE_BODY, <<>>}

\* The most lines a text handed to clean_article_info_section has.
MaxLines == 4

ArticleTexts ==
  {Join(ls, <<NL>>) : ls \in UNION {[1..k -> ARTICLE_LINES] : k \in 0..MaxLines}}

\* clean_article_info_section is about to be called on a text.
ArticleInit ==
  /\ LoopInit
  /\ call = NoCall
  /\ \E text \in ArticleTexts : art = [pc |-> "call", text |-> text]

\* Lines 106-114: the empty text is returned as it is; any other text is
\* split and the loop starts in the mode "collecting title".
ArtEnter ==
  /\ art.pc = "call"
  /\ art' = IF Len(art.text) = 0
              THEN [pc |-> "done", text |-> art.text, lines |-> <<>>,
                    modes |-> <<>>, result |-> art.text]
              ELSE [pc |-> "loop", text |-> art.text,
                    lines |-> SplitNL(art.text), i |-> 1,
                    cleaned_lines |-> <<>>, title_lines |-> <<>>,
                    found_abstract |-> FALSE, skip_until_abstract |-> FALSE,
                    collecting_title |-> TRUE,
                    modes |-> <<ModeOf(FALSE, FALSE)>>]
  /\ UNCHANGED <<loop_vars, call>>

\* Line 116: the loop has a line to look at.
InLoop == art.pc = "loop" /\ art.i <= Len(art.lines)

\* The iteration ends with the given flags and buffers.
ArtContinue(found, skip, collecting, titles, cleaned) ==
  /\ art' = [art EXCEPT !.i = @ + 1,
                        !.found_abstract = found,
                        !.skip_until_abstract = skip,
                        !.collecting_title = collecting,
                        !.title_lines = titles,
                        !.cleaned_lines = cleaned,
                        !.modes = Append(@, ModeOf(found, skip))]
  /\ UNCHANGED <<loop_vars, call>>

\* Lines 121-130: the first line that contains ABSTRACT.  The title lines
\* are flushed, with a blank line after them if there are any, and the line
\* itself is kept as it is.
ArtAbstractLine ==
  /\ InLoop
  /\ \E line \in {art.lines[art.i]} :
       \E upper \in {Upper(Strip(line))} :
         /\ IsAbstractMarker(upper, art.found_abstract)
         /\ ArtContinue(TRUE, FALSE, FALSE, art.title_lines,
                        art.cleaned_lines
                        \o (IF Len(art.title_lines) > 0
                              THEN art.title_lines \o << <<>> >>
                              ELSE <<>>)
                        \o <<line>>)

\* Lines 133-138: a metadata heading before the abstract.
ArtMetadataLine ==
  /\ InLoop
  /\ \E upper \in {Upper(Strip(art.lines[art.i]))} :
       /\ ~IsAbstractMarker(upper, art.found_abstract)
       /\ IsMetadataMarker(upper, art.found_abstract)
       /\ ArtContinue(art.found_abstract, TRUE, FALSE, art.title_lines,
                      art.cleaned_lines)

\* Lines 141-142: a line of the metadata section is skipped.
ArtSkipLine ==
  /\ InLoop
  /\ \E upper \in {Upper(Strip(art.lines[art.i]))} :
       /\ ~IsAbstractMarker(upper, art.found_abstract)
       /\ ~IsMetadataMarker(upper, art.found_abstract)
       /\ ~art.found_abstract /\ art.skip_until_abstract
       /\ ArtContinue(art.found_abstract, art.skip_until_abstract,
                      art.collecting_title, art.title_lines,
                      art.cleaned_lines)

\* Lines 145-156: a line before any marker is buffered if it is a title line.
ArtTitleLine ==
  /\ InLoop
  /\ \E line \in {art.lines[art.i]} :
       \E upper \in {Upper(Strip(line))} :
         /\ ~IsAbstractMarker(upper, art.found_abstract)
         /\ ~IsMetadataMarker(upper, art.found_abstract)
         /\ ~art.found_abstract /\ ~art.skip_until_abstract
         /\ art.collecting_title
         /\ ArtContinue(art.found_abstract, art.skip_until_abstract,
                        art.collecting_title,
                        IF IsTitleLine(line) THEN Append(art.title_lines, line)
                                             ELSE art.title_lines,
                        art.cleaned_lines)

\* Lines 159-162: a line after the abstract marker is kept, URLs removed.
ArtPostLine ==
  /\ InLoop
  /\ \E line \in {art.lines[art.i]} :
       \E upper \in {Upper(Strip(line))} :
         /\ ~IsAbstractMarker(upper, art.found_abstract)
         /\ art.found_abstract
         /\ ArtContinue(art.found_abstract, art.skip_until_abstract,
                        art.collecting_title, art.title_lines,
                        Append(art.cleaned_lines, RemoveUrlsOf(line)))

\* Lines 165-173: the loop is over and the function returns.
ArtReturn ==
  /\ art.pc = "loop"
  /\ art.i > Len(art.lines)
  /\ art' = [pc |-> "done", text |-> art.text, lines |-> art.lines,
             modes |-> art.modes,
             result |-> ArticleResult(art.lines, art.found_abstract,
                                      art.cleaned_lines)]
  /\ UNCHANGED <<loop_vars, call>>

ArticleNext ==
  \/ ArtEnter
  \/ ArtAbstractLine
  \/ ArtMetadataLine
  \/ ArtSkipLine
  \/ ArtTitleLine
  \/ ArtPostLine
  \/ ArtReturn

ArticleSpec == ArticleInit /\ [][ArticleNext]_vars

\* The text has a line that contains ABSTRACT, in any letter case.
HasAbstractLine(lines) ==
  \E i \in DOMAIN lines : Contains(Upper(lines[i]), ABSTRACT_KEYWORD)

IsMetadataHeading(line) ==
  \E k \in METADATA_KEYWORDS : Contains(Upper(line), k)

\* What C9 says the function returns for the lines of a text that has an
\* abstract marker: the title lines from before the first metadata heading,
\* a blank line (always, or only after a title line), the first ABSTRACT
\* line as it is, every later line without its URLs.
ArticleOutput(lines, blank_always) ==
  LET m == CHOOSE i \in DOMAIN lines :
             /\ Contains(Upper(lines[i]), ABSTRACT_KEYWORD)
             /\ \A j \in 1..(i - 1) : ~Contains(Upper(lines[j]), ABSTRACT_KEYWORD)
      heads == {i \in 1..(m - 1) : IsMetadataHeading(lines[i])}
      k == IF heads = {} THEN m
           ELSE CHOOSE i \in heads : \A j \in heads : i <= j
      titles == SelectSeq(SubSeq(lines, 1, k - 1), IsTitleLine)
      blank == IF blank_always \/ Len(titles) > 0 THEN << <<>> >> ELSE <<>>
      later == [j \in 1..(Len(lines) - m) |-> RemoveUrlsOf(lines[m + j])]
  IN titles \o blank \o <<lines[m]>> \o later

ModeRank(mode) ==
  CASE mode = "collecting title" -> 1
    [] mode = "skipping metadata" -> 2
    [] mode = "post-abstract" -> 3

\* The modes the activation went through never step back.
ModesForwardOnly ==
  art.pc \in {"loop", "done"} =>
    \A i, j \in DOMAIN art.modes :
      i < j => ModeRank(art.modes[i]) <= ModeRank(art.modes[j])

\* The activation has returned for a text with an abstract marker.
ArticleReturned == art.pc = "done" /\ HasAbstractLine(art.lines)

\* C9 as stated: for a text with an ABSTRACT line the modes only move
\* forwards and the result is the title lines, then one blank line, then the
\* first ABSTRACT line, then every later line with its URLs stripped.
C9_ArticleAsStated ==
  /\ ModesForwardOnly
  /\ ArticleReturned =>
       art.result = Join(ArticleOutput(art.lines, TRUE), <<NL>>)

\* C9 amended: for a text with an ABSTRACT line the modes only move forwards
\* and the result is the title lines, then one blank line ONLY IF there is
\* at least one title line, then the first ABSTRACT line, then every later
\* line with its URLs stripped.
C9_ArticleAmended ==
  /\ ModesForwardOnly
  /\ ArticleReturned =>
       art.result = Join(ArticleOutput(art.lines, FALSE), <<NL>>)

\* C9 witness: a text whose only candidate title line comes after a metadata
\* heading; the result starts with the ABSTRACT line, no blank line before
\* it, and the line after the marker has lost its URL.
C9_Witness ==
  /\ art.pc = "done"
  /\ art.lines = <<LINE_INFO, LINE_TITLE, LINE_ABSTRACT, LINE_URL>>
  /\ art.modes = <<"collecting title", "skipping metadata",
                   "skipping metadata", "post-abstract", "post-abstract">>
  /\ art.result = LINE_ABSTRACT \o <<NL, "s", "e", "e", SP>>

=============================================================================
